---- MODULE Spec2Model ----
(***************************************************************************)
(* Model of src/app.py: the Cortex relay call_cortex_agent and the modal   *)
(* submission handler handle_modal_submission that calls it and delivers   *)
(* the result to the submitting user by direct message.                    *)
(*                                                                         *)
(* Python values are records [kind, v]: kind is "absent" (no such key),    *)
(* "none" (None / JSON null), "str", "list" or "dict"; v is the sequence   *)
(* of the value's elements (the characters of a string, the items of a     *)
(* list).  A fixed text of the program is a one-element string.            *)
(***************************************************************************)
EXTENDS Integers, Sequences, FiniteSets, TLC

VARIABLES
    cfg,          \* CORTEX_AGENT_URL / CORTEX_API_KEY, read once at import
    pc,           \* position of the running handler / relay call
    caller,       \* who invoked call_cortex_agent: "handler", "direct", "none"
    body,         \* the view_submission body handed to the handler
    question,     \* handler local / relay parameter
    context,      \* handler local / relay parameter
    user_id,      \* handler local / relay parameter
    channel_id,   \* relay parameter
    payload,      \* the dict built by call_cortex_agent
    resp,         \* the Response returned by requests.post
    result,       \* the value call_cortex_agent returned
    relayExc,     \* the exception call_cortex_agent raised
    exc,          \* the exception e caught (or propagated) by the handler
    answer,       \* handler local
    rich,         \* handler local
    blocks,       \* handler local
    dm_channel,   \* handler local
    acks,         \* number of ack() calls of this execution
    calls,        \* number of call_cortex_agent invocations of this execution
    posts,        \* number of requests.post calls of this execution
    sent,         \* payloads handed to requests.post, in order
    delivered,    \* messages chat_postMessage accepted, in order
    events        \* external calls of this execution, in order

locals == <<question, context, user_id, channel_id>>
relayVars == <<payload, resp, result, relayExc>>
handlerVars == <<answer, rich, blocks, dm_channel>>
counters == <<acks, calls, posts>>
vars == <<cfg, pc, caller, body, locals, relayVars, handlerVars, exc,
          counters, sent, delivered, events>>

\* Longest submitted question text the model enumerates.
MaxLen == 2

---------------------------------------------------------------------------
\* Python values

None == [kind |-> "none", v |-> <<>>]
Absent == [kind |-> "absent", v |-> <<>>]
Str(s) == [kind |-> "str", v |-> s]
List(s) == [kind |-> "list", v |-> s]
Dict(s) == [kind |-> "dict", v |-> s]

\* bool(x): None, "", [] and {} are falsy.
Truthy(x) == x.kind \notin {"none", "absent"} /\ x.v # <<>>

\* d.get(key): a missing key and a null both read as None.
Get(x) == IF x.kind = "absent" THEN None ELSE x

IsInstanceList(x) == x.kind = "list"

Whitespace == {" "}
Chars == {" ", "q"}

RECURSIVE LStrip(_)
LStrip(s) ==
    IF s = <<>> THEN s
    ELSE IF Head(s) \in Whitespace THEN LStrip(Tail(s)) ELSE s

RECURSIVE RStrip(_)
RStrip(s) ==
    IF s = <<>> THEN s
    ELSE IF s[Len(s)] \in Whitespace THEN RStrip(SubSeq(s, 1, Len(s) - 1)) ELSE s

\* str.strip()
Strip(s) == RStrip(LStrip(s))

StringsUpTo(n) == UNION {[1..k -> Chars] : k \in 0..n}

\* one external call of an execution and whether it returned normally
Ev(op, ok) == [op |-> op, ok |-> ok]

NoExc == [type |-> "none", status |-> 0]
Exc(t) == [type |-> t, status |-> 0]
HTTPError(code) == [type |-> "HTTPError", status |-> code]

---------------------------------------------------------------------------
\* Configuration and inputs

\* os.environ.get gives None for an unset variable, else its (maybe empty) text.
CfgValues == {None, Str(<<>>), Str(<<"set">>)}

\* body["view"]["state"]["values"]["query_block"]["query_input"]["value"]
QueryValues == {Absent, None} \cup {Str(s) : s \in StringsUpTo(MaxLen)}

\* the optional context input: block missing, left blank (null), or typed text
ContextValues == {Absent, None, Str(<<>>), Str(<<" ">>), Str(<<"c">>)}

\* body.get("user", {}).get("id")
UserValues == {Absent, Str(<<"U1">>)}

Bodies == [query : QueryValues, context : ContextValues, user : UserValues]

NoBody == [query |-> Absent, context |-> Absent, user |-> Absent]

\* arguments a direct caller of call_cortex_agent may pass
DirectQuestions == {Str(s) : s \in StringsUpTo(MaxLen)}
DirectContexts == {None, Str(<<>>), Str(<<"c">>)}
DirectIds == {None, Str(<<"X1">>)}

\* Upstream responses.  A JSON object is the record of its four recognised keys.
AnswerValues == {Absent, None, Str(<<>>), Str(<<"A">>)}
MessageValues == {Absent, Str(<<>>), Str(<<"M">>)}
RichValues == {Absent, Str(<<>>), Str(<<"R">>)}
BlocksValues == {Absent, List(<<>>), List(<<"b1">>), Dict(<<"k">>)}

Objects == [answer : AnswerValues, message : MessageValues,
            rich_text : RichValues, blocks : BlocksValues]

EmptyObject == [answer |-> Absent, message |-> Absent,
                rich_text |-> Absent, blocks |-> Absent]

NotJson == [form |-> "notjson", obj |-> EmptyObject]
NonObject == [form |-> "nonobject", obj |-> EmptyObject]
Object(o) == [form |-> "object", obj |-> o]
NoResult == [form |-> "none", obj |-> EmptyObject]

AllBodies == {NotJson, NonObject} \cup {Object(o) : o \in Objects}
FewBodies == {NotJson, Object([EmptyObject EXCEPT !.answer = Str(<<"A">>)])}

Responses ==
    {[status |-> s, body |-> b] : s \in {200, 304}, b \in AllBodies}
    \cup {[status |-> s, body |-> b] : s \in {201, 404, 500}, b \in FewBodies}

NoResp == [status |-> 0, body |-> NotJson]

\* what requests.post can do: return a response, or raise
PostOutcomes ==
    {[raises |-> "none", resp |-> r] : r \in Responses}
    \cup {[raises |-> t, resp |-> NoResp] : t \in {"ConnectionError", "Timeout"}}

---------------------------------------------------------------------------
\* call_cortex_agent

\* faulty variant of the check: `and` in place of `or`
ConfigMissingAnd(c) == ~Truthy(c.url) /\ ~Truthy(c.key)

\* line 116: not CORTEX_AGENT_URL or not CORTEX_API_KEY
ConfigMissing(c) == ~Truthy(c.url) \/ ~Truthy(c.key)

NoPayload == [k \in {} |-> None]

\* faulty variant: `if context is not None` in place of `if context`
BuildPayloadNotNone(q, ctx, uid, cid) ==
    LET base == [question |-> q,
                 source |-> Str(<<"slack">>),
                 metadata |-> [slack_user_id |-> uid, slack_channel_id |-> cid]]
    IN IF ctx.kind # "none" THEN ("context" :> ctx) @@ base ELSE base

\* lines 124-133: the payload dict; the context key exists only for a truthy context
BuildPayload(q, ctx, uid, cid) ==
    LET base == [question |-> q,
                 source |-> Str(<<"slack">>),
                 metadata |-> [slack_user_id |-> uid, slack_channel_id |-> cid]]
    IN IF Truthy(ctx) THEN ("context" :> ctx) @@ base ELSE base

\* faulty variant: only server errors raise
RaisesForStatusServerOnly(status) == 500 <= status /\ status < 600

\* Response.raise_for_status: HTTPError for 400 <= status < 600
RaisesForStatus(status) == 400 <= status /\ status < 600

\* faulty variant: a failed POST is tried once more before the error is raised
RaiseTargetRetry ==
    IF pc = "post" /\ posts = 0 THEN "post"
    ELSE IF caller = "handler" THEN "except" ELSE "returned"

\* where control goes when call_cortex_agent raises / returns
RaiseTarget == IF caller = "handler" THEN "except" ELSE "returned"
ReturnTarget == IF caller = "handler" THEN "normalize" ELSE "returned"

\* lines 115-133: configuration check and payload construction
Validate ==
    /\ pc = "call"
    /\ calls' = calls + 1
    /\ events' = Append(events, Ev("call_cortex_agent", ~ConfigMissing(cfg)))
    /\ IF ConfigMissing(cfg)
       THEN /\ relayExc' = Exc("ValueError")
            /\ exc' = IF caller = "handler" THEN Exc("ValueError") ELSE exc
            /\ pc' = RaiseTarget
            /\ UNCHANGED payload
       ELSE /\ payload' = BuildPayload(question, context, user_id, channel_id)
            /\ pc' = "post"
            /\ UNCHANGED <<relayExc, exc>>
    /\ UNCHANGED <<cfg, caller, body, locals, resp, result, handlerVars,
                   acks, posts, sent, delivered>>

\* line 136: the one requests.post call
Post ==
    /\ pc = "post"
    /\ posts' = posts + 1
    /\ sent' = Append(sent, payload)
    /\ \E o \in PostOutcomes :
         /\ events' = Append(events, Ev("POST", o.raises = "none"))
         /\ IF o.raises # "none"
            THEN /\ relayExc' = Exc(o.raises)
                 /\ exc' = IF caller = "handler" THEN Exc(o.raises) ELSE exc
                 /\ pc' = RaiseTarget
                 /\ UNCHANGED resp
            ELSE /\ resp' = o.resp
                 /\ pc' = "status"
                 /\ UNCHANGED <<relayExc, exc>>
    /\ UNCHANGED <<cfg, caller, body, locals, payload, result, handlerVars,
                   acks, calls, delivered>>

\* lines 137-138: raise_for_status, then resp.json()
\* faulty variant: an unparsable body is returned as if it were a result
ParseOutcomeLenient(r) ==
    IF RaisesForStatus(r.status) THEN HTTPError(r.status) ELSE NoExc

ParseOutcome(r) ==
    IF RaisesForStatus(r.status) THEN HTTPError(r.status)
    ELSE IF r.body.form = "notjson" THEN Exc("JSONDecodeError")
    ELSE NoExc

ParseResponse ==
    /\ pc = "status"
    /\ LET e == ParseOutcome(resp)
       IN IF e # NoExc
          THEN /\ relayExc' = e
               /\ exc' = IF caller = "handler" THEN e ELSE exc
               /\ pc' = RaiseTarget
               /\ UNCHANGED result
          ELSE /\ result' = resp.body
               /\ pc' = ReturnTarget
               /\ UNCHANGED <<relayExc, exc>>
    /\ UNCHANGED <<cfg, caller, body, locals, payload, resp, handlerVars,
                   counters, sent, delivered, events>>

---------------------------------------------------------------------------
\* handle_modal_submission

Placeholder == Str(<<"No answer returned.">>)

\* faulty variant: message takes precedence over answer
DisplayTextMessageFirst(o) ==
    LET a == Get(o.answer)
        m == Get(o.message)
    IN IF Truthy(m) THEN m ELSE IF Truthy(a) THEN a ELSE Placeholder

\* line 193: result.get("answer") or result.get("message") or "No answer returned."
DisplayText(o) ==
    LET a == Get(o.answer)
        m == Get(o.message)
    IN IF Truthy(a) THEN a ELSE IF Truthy(m) THEN m ELSE Placeholder

\* faulty variant: the isinstance test is dropped
UseBlocksAnyTruthy(b) == Truthy(b)

\* line 201: blocks and isinstance(blocks, list)
UseBlocks(b) == Truthy(b) /\ IsInstanceList(b)

\* line 204: answer if not rich else rich
TextOut(ans, r) == IF ~Truthy(r) THEN ans ELSE r

\* lines 201-205: the arguments of the answer's chat_postMessage
AnswerMessage(ch, b, ans, r) ==
    IF UseBlocks(b)
    THEN [channel |-> ch, blocks |-> b, text |-> ans]
    ELSE [channel |-> ch, blocks |-> Absent, text |-> TextOut(ans, r)]

\* line 212: the failure text, which quotes the exception
ApologyText(e) == Str(<<"Sorry, I couldn't complete that request: ", e.type>>)

ApologyMessage(ch, e) == [channel |-> ch, blocks |-> Absent, text |-> ApologyText(e)]

\* conversations_open(users=user_id) can only succeed for a real user id
CanOpenDM(uid) == uid.kind = "str"

DMChannel(uid) == Str(<<"D">> \o uid.v)

Idle == pc = "idle"

\* the handler (or the direct call) has returned or raised to its caller
Finished == pc \in {"done", "raised", "returned"}

\* state of a fresh execution (everything but cfg, pc, caller, body and arguments)
Fresh ==
    /\ payload' = NoPayload
    /\ resp' = NoResp
    /\ result' = NoResult
    /\ relayExc' = NoExc
    /\ exc' = NoExc
    /\ answer' = None
    /\ rich' = None
    /\ blocks' = None
    /\ dm_channel' = None
    /\ acks' = 0
    /\ calls' = 0
    /\ posts' = 0
    /\ sent' = <<>>
    /\ delivered' = <<>>
    /\ events' = <<>>

\* the platform dispatches a view_submission to the handler (line 181-182)
Submit ==
    /\ Idle
    /\ \E b \in Bodies : body' = b
    /\ caller' = "handler"
    /\ pc' = "read"
    /\ question' = None
    /\ context' = None
    /\ user_id' = None
    /\ channel_id' = None
    /\ Fresh
    /\ UNCHANGED cfg

\* some other code calls call_cortex_agent(question, context=, user_id=, channel_id=)
DirectCall ==
    /\ Idle
    /\ body' = NoBody
    /\ caller' = "direct"
    /\ pc' = "call"
    /\ \E q \in DirectQuestions : question' = q
    /\ \E c \in DirectContexts : context' = c
    /\ \E u \in DirectIds : user_id' = u
    /\ \E c \in DirectIds : channel_id' = c
    /\ Fresh
    /\ UNCHANGED cfg

\* the execution is over; its locals are gone and the process waits for the next event
Return ==
    /\ Finished
    /\ pc' = "idle"
    /\ caller' = "none"
    /\ body' = NoBody
    /\ question' = None
    /\ context' = None
    /\ user_id' = None
    /\ channel_id' = None
    /\ Fresh
    /\ UNCHANGED cfg

\* lines 183-185: read the submitted values; a missing key or a None value raises
ReadValues ==
    /\ pc = "read"
    /\ IF body.query.kind = "str"
       THEN /\ question' = Str(Strip(body.query.v))
            /\ context' = Get(body.context)
            /\ pc' = "ack"
            /\ UNCHANGED exc
       ELSE /\ exc' = Exc(IF body.query.kind = "absent" THEN "KeyError"
                                                        ELSE "AttributeError")
            /\ pc' = "raised"
            /\ UNCHANGED <<question, context>>
    /\ UNCHANGED <<cfg, caller, body, user_id, channel_id, relayVars, handlerVars,
                   counters, sent, delivered, events>>

\* faulty variant: the handler goes on without calling ack
AckOmitted ==
    /\ pc = "ack"
    /\ user_id' = Get(body.user)
    /\ pc' = "call"
    /\ UNCHANGED <<cfg, caller, body, question, context, channel_id, relayVars,
                   handlerVars, exc, counters, sent, delivered, events>>

\* lines 187-189: ack(response_action="clear"), then user_id
Ack ==
    /\ pc = "ack"
    /\ acks' = acks + 1
    /\ events' = Append(events, Ev("ack", TRUE))
    /\ user_id' = Get(body.user)
    /\ pc' = "call"
    /\ UNCHANGED <<cfg, caller, body, question, context, channel_id, relayVars,
                   handlerVars, exc, calls, posts, sent, delivered>>

\* lines 193-195: result.get(...) on the returned value; a non-dict has no .get
Normalize ==
    /\ pc = "normalize"
    /\ IF result.form = "object"
       THEN /\ answer' = DisplayText(result.obj)
            /\ rich' = Get(result.obj.rich_text)
            /\ blocks' = Get(result.obj.blocks)
            /\ pc' = "dm_open"
            /\ UNCHANGED exc
       ELSE /\ exc' = Exc("AttributeError")
            /\ pc' = "except"
            /\ UNCHANGED <<answer, rich, blocks>>
    /\ UNCHANGED <<cfg, caller, body, locals, relayVars, dm_channel,
                   counters, sent, delivered, events>>

\* lines 198-199: open a DM with the user
OpenDM ==
    /\ pc = "dm_open"
    /\ \E ok \in {CanOpenDM(user_id), FALSE} :
         /\ events' = Append(events, Ev("conversations_open", ok))
         /\ IF ok
            THEN /\ dm_channel' = DMChannel(user_id)
                 /\ pc' = "post_answer"
                 /\ UNCHANGED exc
            ELSE /\ exc' = Exc("SlackApiError")
                 /\ pc' = "except"
                 /\ UNCHANGED dm_channel
    /\ UNCHANGED <<cfg, caller, body, locals, relayVars, answer, rich, blocks,
                   counters, sent, delivered>>

\* lines 201-205: post the answer
PostAnswer ==
    /\ pc = "post_answer"
    /\ \E ok \in BOOLEAN :
         /\ events' = Append(events, Ev("chat_postMessage", ok))
         /\ IF ok
            THEN /\ delivered' = Append(delivered,
                                        AnswerMessage(dm_channel, blocks, answer, rich))
                 /\ pc' = "done"
                 /\ UNCHANGED exc
            ELSE /\ exc' = Exc("SlackApiError")
                 /\ pc' = "except"
                 /\ UNCHANGED delivered
    /\ UNCHANGED <<cfg, caller, body, locals, relayVars, handlerVars,
                   counters, sent>>

\* lines 207-211 and 213-214: log, then try to open a DM; a failure is dropped
ExceptOpenDM ==
    /\ pc = "except"
    /\ \E ok \in {CanOpenDM(user_id), FALSE} :
         /\ events' = Append(events, Ev("conversations_open", ok))
         /\ IF ok
            THEN /\ dm_channel' = DMChannel(user_id)
                 /\ pc' = "post_apology"
            ELSE /\ pc' = "done"
                 /\ UNCHANGED dm_channel
    /\ UNCHANGED <<cfg, caller, body, locals, relayVars, answer, rich, blocks, exc,
                   counters, sent, delivered>>

\* faulty variant: no inner try/except, a failed post propagates
PostApologyUnguarded ==
    /\ pc = "post_apology"
    /\ \E ok \in BOOLEAN :
         /\ events' = Append(events, Ev("chat_postMessage", ok))
         /\ IF ok
            THEN /\ delivered' = Append(delivered, ApologyMessage(dm_channel, exc))
                 /\ pc' = "done"
            ELSE /\ pc' = "raised"
                 /\ UNCHANGED delivered
    /\ UNCHANGED <<cfg, caller, body, locals, relayVars, handlerVars, exc,
                   counters, sent>>

\* lines 212-214: post the failure text; a failure is dropped
PostApology ==
    /\ pc = "post_apology"
    /\ \E ok \in BOOLEAN :
         /\ events' = Append(events, Ev("chat_postMessage", ok))
         /\ IF ok
            THEN delivered' = Append(delivered, ApologyMessage(dm_channel, exc))
            ELSE UNCHANGED delivered
    /\ pc' = "done"
    /\ UNCHANGED <<cfg, caller, body, locals, relayVars, handlerVars, exc,
                   counters, sent>>

---------------------------------------------------------------------------
Init ==
    /\ cfg \in [url : CfgValues, key : CfgValues]
    /\ pc = "idle"
    /\ caller = "none"
    /\ body = NoBody
    /\ question = None
    /\ context = None
    /\ user_id = None
    /\ channel_id = None
    /\ payload = NoPayload
    /\ resp = NoResp
    /\ result = NoResult
    /\ relayExc = NoExc
    /\ exc = NoExc
    /\ answer = None
    /\ rich = None
    /\ blocks = None
    /\ dm_channel = None
    /\ acks = 0
    /\ calls = 0
    /\ posts = 0
    /\ sent = <<>>
    /\ delivered = <<>>
    /\ events = <<>>

Next ==
    \/ Submit
    \/ DirectCall
    \/ ReadValues
    \/ Ack
    \/ Validate
    \/ Post
    \/ ParseResponse
    \/ Normalize
    \/ OpenDM
    \/ PostAnswer
    \/ ExceptOpenDM
    \/ PostApology
    \/ Return

Spec == Init /\ [][Next]_vars

---------------------------------------------------------------------------
\* Vocabulary of the properties, stated on the data and not through the
\* operators that model the code.

IsUnset(x) == x.kind = "none" \/ (x.kind = "str" /\ x.v = <<>>)
NonEmptyStr(x) == x.kind = "str" /\ x.v # <<>>
NonEmptyList(x) == x.kind = "list" /\ x.v # <<>>
Present(x) == x.kind \notin {"absent", "none"}
ConfigUnset == IsUnset(cfg.url) \/ IsUnset(cfg.key)
Is2xx(status) == 200 <= status /\ status < 300

Happened(op, ok) == \E i \in 1..Len(events) : events[i] = Ev(op, ok)
Called(op) == \E i \in 1..Len(events) : events[i].op = op

\* call_cortex_agent was entered and has returned or raised
RelayFinished == calls >= 1 /\ pc \notin {"call", "post", "status"}
RelayRaised == relayExc # NoExc
RelayReturned == result # NoResult

\* the handler is past line 195 with a parsed JSON object
Normalized ==
    /\ caller = "handler"
    /\ result.form = "object"
    /\ pc \in {"dm_open", "post_answer", "except", "post_apology", "done"}

\* the handler finished by delivering the answer
AnswerDelivered ==
    /\ caller = "handler"
    /\ pc = "done"
    /\ exc = NoExc
    /\ Len(delivered) = 1

IsApology(m) ==
    /\ m.blocks = Absent
    /\ m.text.kind = "str"
    /\ Len(m.text.v) = 2
    /\ m.text.v[1] = "Sorry, I couldn't complete that request: "

\* the context the caller supplied
Supplied == IF caller = "handler" THEN Get(body.context) ELSE context

---------------------------------------------------------------------------
\* C1: when the endpoint URL or the API key is unset (missing or empty), every
\* invocation of call_cortex_agent ends in the configuration error (ValueError)
\* and makes no POST, whatever question, context, user id and channel id it got.
C1_ConfigErrorNoPost ==
    ConfigUnset =>
        /\ posts = 0
        /\ sent = <<>>
        /\ ~Called("POST")
        /\ ~RelayReturned
        /\ calls >= 1 => relayExc = Exc("ValueError")

C1_Witness ==
    /\ IsUnset(cfg.key)
    /\ ~IsUnset(cfg.url)
    /\ caller = "direct"
    /\ pc = "returned"
    /\ channel_id # None
    /\ NonEmptyStr(context)
    /\ relayExc = Exc("ValueError")

\* C2: with valid configuration one invocation of call_cortex_agent makes exactly
\* one POST, whatever the outcome (no retry after an error status, a connection
\* failure, a timeout or an unparsable body), and one modal submission invokes
\* call_cortex_agent at most once.
C2_SinglePost ==
    /\ calls <= 1
    /\ posts <= 1
    /\ Len(sent) = posts
    /\ (~ConfigUnset /\ RelayFinished) => posts = 1

C2_Witness ==
    /\ ~ConfigUnset
    /\ caller = "handler"
    /\ pc = "done"
    /\ relayExc = Exc("Timeout")
    /\ posts = 1
    /\ calls = 1

\* C3 as stated: the display text is answer ?? message ?? placeholder, so an
\* answer that is any string X, the empty one included, is the display text.
C3_Original ==
    (Normalized /\ Is2xx(resp.status)) =>
        answer = (IF result.obj.answer.kind = "str" THEN result.obj.answer
                  ELSE IF result.obj.message.kind = "str" THEN result.obj.message
                  ELSE Placeholder)

\* C3 as amended: the display text is the answer when it is a non-empty
\* string; otherwise the message when it is a non-empty string; otherwise
\* (both absent, null or empty) exactly the placeholder "No answer returned.".
C3_DisplayText ==
    Normalized =>
        answer = (IF NonEmptyStr(result.obj.answer) THEN result.obj.answer
                  ELSE IF NonEmptyStr(result.obj.message) THEN result.obj.message
                  ELSE Str(<<"No answer returned.">>))

C3_Witness ==
    /\ Normalized
    /\ pc = "dm_open"
    /\ resp.status = 200
    /\ result.obj.answer = Str(<<>>)
    /\ result.obj.message = Str(<<"M">>)
    /\ answer = Str(<<"M">>)

\* C4 as stated: a non-empty list of blocks is delivered unmodified with the
\* display text as fallback text; otherwise the text is rich_text whenever
\* rich_text is present, else the display text, and no blocks are sent.
C4_Original ==
    (AnswerDelivered /\ Is2xx(resp.status)) =>
        LET m == delivered[1]
            o == result.obj
        IN IF NonEmptyList(o.blocks)
           THEN m.blocks = o.blocks /\ m.text = answer
           ELSE /\ m.blocks = Absent
                /\ m.text = (IF Present(o.rich_text) THEN o.rich_text ELSE answer)

\* C4 as amended: a non-empty list of blocks is delivered unmodified with the
\* display text as fallback text, whatever rich_text, answer and message are;
\* when blocks is absent, empty or not a list, no blocks are sent and the text
\* is rich_text if rich_text is present and non-empty, else the display text.
C4_Rendering ==
    AnswerDelivered =>
        LET m == delivered[1]
            o == result.obj
        IN IF NonEmptyList(o.blocks)
           THEN m.blocks = o.blocks /\ m.text = answer
           ELSE /\ m.blocks = Absent
                /\ m.text = (IF NonEmptyStr(o.rich_text) THEN o.rich_text ELSE answer)

C4_Witness ==
    /\ AnswerDelivered
    /\ result.obj.blocks = List(<<"b1">>)
    /\ result.obj.rich_text = Str(<<"R">>)
    /\ delivered[1].blocks = List(<<"b1">>)
    /\ delivered[1].text = Str(<<"A">>)

\* C5: a payload handed to requests.post has a context key if and only if the
\* caller supplied a present, non-empty context, and then the value is that
\* context; otherwise the key is missing altogether (never null or ""),
\* also for a modal submission whose context field was left blank.
C5_ContextKey ==
    \A i \in 1..Len(sent) :
        LET p == sent[i]
        IN /\ ("context" \in DOMAIN p) <=> NonEmptyStr(Supplied)
           /\ ("context" \in DOMAIN p) => p["context"] = Supplied

C5_Witness ==
    /\ caller = "handler"
    /\ body.query = Str(<<"q">>)
    /\ body.context = None
    /\ Len(sent) = 1
    /\ DOMAIN sent[1] = {"question", "source", "metadata"}

\* C6 as stated: every non-2xx status yields the upstream error carrying the
\* status code, and the relay returns no normal result.
C6_Original ==
    (RelayFinished /\ resp # NoResp /\ ~Is2xx(resp.status)) =>
        /\ relayExc = HTTPError(resp.status)
        /\ ~RelayReturned

\* C6 as amended: a 4xx or 5xx status yields the upstream error (HTTPError)
\* carrying the status code; a connection failure or a timeout yields a
\* transport error; a response whose status is below 400 and whose body is not
\* valid JSON yields the malformed-response error (JSONDecodeError); the three
\* kinds differ and in none of these cases does the relay return a result.
C6_ErrorKinds ==
    /\ Happened("POST", FALSE) =>
          /\ relayExc.type \in {"ConnectionError", "Timeout"}
          /\ ~RelayReturned
    /\ (RelayFinished /\ resp # NoResp /\ resp.status >= 400 /\ resp.status < 600) =>
          /\ relayExc = [type |-> "HTTPError", status |-> resp.status]
          /\ ~RelayReturned
    /\ (RelayFinished /\ resp # NoResp /\ resp.status < 400
          /\ resp.body.form = "notjson") =>
          /\ relayExc.type = "JSONDecodeError"
          /\ ~RelayReturned

C6_Witness ==
    /\ caller = "direct"
    /\ pc = "returned"
    /\ resp.status = 500
    /\ relayExc = [type |-> "HTTPError", status |-> 500]

\* C7 as stated: for every modal submission whose relay call fails, the handling
\* ends with the failure message delivered to the submitting user.
C7_Original ==
    (caller = "handler" /\ pc = "done" /\ RelayRaised) =>
        /\ Len(delivered) = 1
        /\ IsApology(delivered[1])

\* C7 as amended: every failure of a relay call (configuration, transport,
\* error status, malformed body) is raised to its caller, and for every modal
\* submission whose relay call fails the handler tries to deliver the failure
\* message: it is delivered, quoting the error, when opening the DM and posting
\* both succeed; when either fails that failure is dropped and no message at
\* all is delivered.
C7_FailureSurfaced ==
    /\ RelayFinished => (RelayRaised <=> ~RelayReturned)
    /\ (RelayFinished /\ (\/ ConfigUnset
                          \/ Happened("POST", FALSE)
                          \/ (resp # NoResp /\ resp.status >= 400)
                          \/ (resp # NoResp /\ resp.body.form = "notjson")))
          => RelayRaised
    /\ (caller = "handler" /\ RelayRaised /\ pc \in {"except", "post_apology", "done"})
          => exc = relayExc
    /\ (caller = "handler" /\ pc = "done" /\ RelayRaised) =>
          /\ Called("conversations_open")
          /\ IF Happened("conversations_open", TRUE) /\ Happened("chat_postMessage", TRUE)
             THEN /\ Len(delivered) = 1
                  /\ IsApology(delivered[1])
                  /\ delivered[1].text.v[2] = relayExc.type
             ELSE delivered = <<>>

C7_Witness ==
    /\ caller = "handler"
    /\ pc = "done"
    /\ relayExc.type = "JSONDecodeError"
    /\ Len(delivered) = 1
    /\ IsApology(delivered[1])

\* C8: no POST of a modal submission carries a question that is empty after
\* trimming, for any submitted input value.
C8_NonEmptyQuestion ==
    caller = "handler" =>
        \A i \in 1..Len(sent) : Strip(sent[i].question.v) # <<>>

\* C9 as stated: in every execution of the handler the acknowledgement happens
\* exactly once.
C9_Original == (caller = "handler" /\ Finished) => acks = 1

\* C9 as amended: in every execution of the handler in which reading the
\* submitted values succeeds, ack happens exactly once and strictly before the
\* upstream POST and before any DM-open or message-post call; if reading the
\* submitted values fails the handler raises with no ack, no upstream call and
\* no DM.
C9_AckFirst ==
    caller = "handler" =>
        /\ acks <= 1
        /\ pc \notin {"read", "ack", "raised"} => acks = 1
        /\ \A i \in 1..Len(events) :
              events[i].op # "ack" => \E j \in 1..(i - 1) : events[j].op = "ack"
        /\ pc = "raised" =>
              /\ body.query.kind # "str"
              /\ acks = 0
              /\ calls = 0
              /\ posts = 0
              /\ events = <<>>
              /\ delivered = <<>>

C9_Witness ==
    /\ caller = "handler"
    /\ pc = "done"
    /\ acks = 1
    /\ posts = 1
    /\ Len(events) >= 5
    /\ events[1].op = "ack"
    /\ events[3].op = "POST"

\* C10: once the acknowledgement is sent the handler terminates without
\* propagating an exception, whatever fails among the upstream call, opening
\* the DM and posting; at most one message is delivered, and an answer message
\* is delivered only if the upstream call of that submission succeeded.
C10_SafeDelivery ==
    caller = "handler" =>
        /\ acks >= 1 => pc # "raised"
        /\ (acks >= 1 /\ ~Finished) => ENABLED Next
        /\ Len(events) <= 7
        /\ Len(delivered) <= 1
        /\ \A i \in 1..Len(delivered) :
              ~IsApology(delivered[i]) =>
                  /\ result.form = "object"
                  /\ ~RelayRaised
                  /\ Happened("POST", TRUE)

C10_Witness ==
    /\ caller = "handler"
    /\ pc = "done"
    /\ acks = 1
    /\ result.form = "object"
    /\ exc = Exc("SlackApiError")
    /\ Happened("chat_postMessage", FALSE)
    /\ Len(delivered) = 1
    /\ IsApology(delivered[1])

====
